---- MODULE Spec2Model ----
(***************************************************************************)
(* A model of the AARR physics core: SimulationManager (simulation.py),    *)
(* AerodynamicsEngine (aerodynamics.py) and the stepping thread of the GUI *)
(* (main_window.py).                                                       *)
(*                                                                         *)
(* Number representations                                                  *)
(*   - The simulation clock (current_time, dt, max_time) is a Python float *)
(*     (IEEE-754 binary64).  It is modelled exactly: a value is a signed   *)
(*     integer multiple of 2^-62 held in three 24-bit limbs, and every     *)
(*     addition rounds the exact sum to 53 significant bits, ties to even. *)
(*   - Kinematic quantities (position, velocity, acceleration, forces) are *)
(*     fixed-point integers in units of 1/1000 (Milli); products are       *)
(*     rounded to the nearest unit.                                        *)
(***************************************************************************)
EXTENDS Integers, Sequences, FiniteSets, TLC

(***************************************************************************)
(* binary64 arithmetic of the clock                                        *)
(***************************************************************************)
LimbBase == 2^24

DblZero == [neg |-> FALSE, l2 |-> 0, l1 |-> 0, l0 |-> 0]

IsZero(a) == a.l2 = 0 /\ a.l1 = 0 /\ a.l0 = 0

\* |a| < |b|
MagLess(a, b) ==
    \/ a.l2 < b.l2
    \/ a.l2 = b.l2 /\ a.l1 < b.l1
    \/ a.l2 = b.l2 /\ a.l1 = b.l1 /\ a.l0 < b.l0

MagEq(a, b) == a.l2 = b.l2 /\ a.l1 = b.l1 /\ a.l0 = b.l0

\* exact |a| + |b|
MagAdd(a, b) ==
    LET s0 == a.l0 + b.l0
        c0 == s0 \div LimbBase
        s1 == a.l1 + b.l1 + c0
        c1 == s1 \div LimbBase
    IN  [l2 |-> a.l2 + b.l2 + c1, l1 |-> s1 % LimbBase, l0 |-> s0 % LimbBase]

\* exact |a| - |b|, for |a| >= |b|
MagSub(a, b) ==
    LET d0 == a.l0 - b.l0
        b0 == IF d0 < 0 THEN 1 ELSE 0
        d1 == a.l1 - b.l1 - b0
        b1 == IF d1 < 0 THEN 1 ELSE 0
    IN  [l2 |-> a.l2 - b.l2 - b1,
         l1 |-> d1 + b1 * LimbBase,
         l0 |-> d0 + b0 * LimbBase]

\* number of significant bits of a limb
BitLen24(x) == CHOOSE n \in 0..31 : x < 2^n /\ (n = 0 \/ x >= 2^(n-1))

BitLen(m) ==
    IF m.l2 > 0 THEN 48 + BitLen24(m.l2)
    ELSE IF m.l1 > 0 THEN 24 + BitLen24(m.l1)
    ELSE BitLen24(m.l0)

\* round a magnitude to 53 significant bits, ties to even (the binary64 rounding)
RoundMag(m) ==
    LET s == BitLen(m) - 53 IN
    IF s <= 0 THEN m
    ELSE
        LET p    == 2^s
            q    == m.l0 \div p
            r    == m.l0 % p
            half == p \div 2
            up   == r > half \/ (r = half /\ q % 2 = 1)
            n0   == (IF up THEN q + 1 ELSE q) * p
            c0   == n0 \div LimbBase
            n1   == m.l1 + c0
            c1   == n1 \div LimbBase
        IN  [l2 |-> m.l2 + c1, l1 |-> n1 % LimbBase, l0 |-> n0 % LimbBase]

Signed(neg, m) ==
    [neg |-> neg /\ ~IsZero(m), l2 |-> m.l2, l1 |-> m.l1, l0 |-> m.l0]

\* a + b in binary64
DblAdd(a, b) ==
    IF a.neg = b.neg THEN Signed(a.neg, RoundMag(MagAdd(a, b)))
    ELSE IF MagLess(a, b) THEN Signed(b.neg, RoundMag(MagSub(b, a)))
    ELSE Signed(a.neg, RoundMag(MagSub(a, b)))

\* a < b
DblLess(a, b) ==
    IF a.neg /\ ~b.neg THEN TRUE
    ELSE IF ~a.neg /\ b.neg THEN FALSE
    ELSE IF a.neg THEN MagLess(b, a)
    ELSE MagLess(a, b)

\* a >= b
DblGeq(a, b) == ~DblLess(a, b)

\* floor(|a| / |b|) and the remainder, for |b| > 0
RECURSIVE MagDivMod(_, _)
MagDivMod(a, b) ==
    IF MagLess(a, b)
    THEN [q |-> 0, r |-> [l2 |-> a.l2, l1 |-> a.l1, l0 |-> a.l0]]
    ELSE CHOOSE result \in
            {IF MagLess(h.r, b)
             THEN [q |-> 2 * h.q, r |-> h.r]
             ELSE [q |-> 2 * h.q + 1, r |-> MagSub(h.r, b)]
                : h \in {MagDivMod(a, MagAdd(b, b))}} : TRUE

\* int(a / b) for b # 0: the quotient rounded to 53 bits as binary64 division
\* rounds it, then truncated toward zero.  The rounded quotient reaches the
\* next integer exactly when the exact one lies within half a unit in the last
\* place of it.
DblIntDiv(a, b) ==
    CHOOSE result \in
        {LET k   == d.q
             s   == 54 - BitLen24(k)
             thr == IF s >= 48 THEN b.l2 \div 2^(s - 48)
                    ELSE b.l2 * 2^(48 - s) + b.l1 \div 2^(s - 24)
             gap == MagSub(b, d.r)
             up  == /\ gap.l2 = 0
                    /\ \/ gap.l1 < thr \div LimbBase
                       \/ gap.l1 = thr \div LimbBase /\ gap.l0 <= thr % LimbBase
             mag == IF up THEN k + 1 ELSE k
         IN  IF a.neg # b.neg THEN 0 - mag ELSE mag
            : d \in {MagDivMod(a, b)}} : TRUE

(***************************************************************************)
(* float literals used as inputs (value * 2^62 in limbs)                   *)
(***************************************************************************)
D_0_001 == [neg |-> FALSE, l2 |-> 16, l1 |-> 6442450, l0 |-> 15837692]
D_0_01 == [neg |-> FALSE, l2 |-> 163, l1 |-> 14092861, l0 |-> 7381976]
D_0_1 == [neg |-> FALSE, l2 |-> 1638, l1 |-> 6710886, l0 |-> 6710912]
D_0_25 == [neg |-> FALSE, l2 |-> 4096, l1 |-> 0, l0 |-> 0]
D_0_5 == [neg |-> FALSE, l2 |-> 8192, l1 |-> 0, l0 |-> 0]
D_1_0 == [neg |-> FALSE, l2 |-> 16384, l1 |-> 0, l0 |-> 0]
D_2_0 == [neg |-> FALSE, l2 |-> 32768, l1 |-> 0, l0 |-> 0]
D_10_0 == [neg |-> FALSE, l2 |-> 163840, l1 |-> 0, l0 |-> 0]
D_m0_1 == [neg |-> TRUE, l2 |-> 1638, l1 |-> 6710886, l0 |-> 6710912]


\* float -> fixed point: the value in units of 1/1000, rounded to nearest
DblToMilli(d) ==
    LET m == (d.l2 * 1000 + ((d.l1 \div 1024) * 1000) \div 16384 + 8192) \div 16384
    IN  IF d.neg THEN -m ELSE m

(***************************************************************************)
(* fixed-point helpers (numpy arithmetic on 3-vectors)                     *)
(***************************************************************************)
Abs(x) == IF x < 0 THEN -x ELSE x

Max(a, b) == IF a >= b THEN a ELSE b

\* n / d rounded to the nearest integer, d > 0
RoundDiv(n, d) == (2 * n + d) \div (2 * d)

\* product of two Milli values, in Milli
MulM(a, b) == RoundDiv(a * b, 1000)

\* floor of the square root, by bisection: lo*lo <= n < hi*hi
RECURSIVE SqrtBetween(_, _, _)
SqrtBetween(n, lo, hi) ==
    IF hi - lo <= 1 THEN lo
    ELSE LET mid == (lo + hi) \div 2
         IN  IF mid * mid <= n THEN SqrtBetween(n, mid, hi)
             ELSE SqrtBetween(n, lo, mid)

ISqrt(n) == SqrtBetween(n, 0, 46341)

ZeroVec == <<0, 0, 0>>

VAdd(a, b) == <<a[1] + b[1], a[2] + b[2], a[3] + b[3]>>

VSub(a, b) == <<a[1] - b[1], a[2] - b[2], a[3] - b[3]>>

\* vector times a Milli scalar
VScaleM(v, k) == <<MulM(v[1], k), MulM(v[2], k), MulM(v[3], k)>>

\* np.linalg.norm; components beyond 26 units are scaled down before squaring
Norm(v) ==
    LET k == Max(Abs(v[1]), Max(Abs(v[2]), Abs(v[3]))) \div 26000 + 1
        x == RoundDiv(v[1], k)
        y == RoundDiv(v[2], k)
        z == RoundDiv(v[3], k)
    IN  k * ISqrt(x * x + y * y + z * z)

(***************************************************************************)
(* aerodynamics.py                                                         *)
(*   lengths, speeds, forces, areas : Milli (1/1000)                       *)
(*   coefficients, Mach number, sines: Micro (1/1000000)                   *)
(*   Reynolds number                : Centi (1/100)                        *)
(*   angles                         : whole degrees                        *)
(***************************************************************************)
ObjectType == {"jet", "sphere", "cylinder", "cube", "airfoil", "custom"}

\* AirProperties(): density in Milli, viscosity in 1e-7 Pa s, speed of sound in m/s
AirProperties ==
    [density |-> 1225, viscosity |-> 181, temperature |-> 288150,
     pressure |-> 101325, speed_of_sound |-> 343]

\* math.sin of a whole number of degrees, in Micro
SinTable ==
    [d \in {0, 5, 10, 15, 20, 30, 45, 60, 90} |->
        CASE d = 0  -> 0
          [] d = 5  -> 87156
          [] d = 10 -> 173648
          [] d = 15 -> 258819
          [] d = 20 -> 342020
          [] d = 30 -> 500000
          [] d = 45 -> 707107
          [] d = 60 -> 866025
          [] d = 90 -> 1000000]

SinMicro(deg) ==
    LET d == deg % 360 IN
    IF d <= 90 THEN SinTable[d]
    ELSE IF d <= 180 THEN SinTable[180 - d]
    ELSE IF d <= 270 THEN -SinTable[d - 180]
    ELSE -SinTable[360 - d]

CosMicro(deg) == SinMicro(deg + 90)

\* math.radians, in Micro
RadMicro(deg) == RoundDiv(deg * 3141593, 180)

\* reynolds ** 0.687 in Milli, for 1 <= reynolds < 1000 (Centi in, linear between
\* the tabulated points)
PowKnots == <<100, 200, 500, 1000, 2000, 5000, 10000, 20000, 50000, 100000>>

PowValues == <<1000, 1610, 3021, 4864, 7831, 14696, 23659, 38090, 71481, 115080>>

Pow0687(re) ==
    LET i  == CHOOSE k \in 1..9 : PowKnots[k] <= re /\ re <= PowKnots[k + 1]
        x0 == PowKnots[i]
        x1 == PowKnots[i + 1]
        y0 == PowValues[i]
        y1 == PowValues[i + 1]
    IN  y0 + RoundDiv(RoundDiv((re - x0) * 1000, x1 - x0) * (y1 - y0), 1000)

\* AerodynamicsEngine.calculate_reynolds_number (speed, length in Milli; result Centi)
calculate_reynolds_number(air, velocity, characteristic_length) ==
    LET p == velocity * characteristic_length
        k == air.density
        v == air.viscosity
    IN  (p \div v) * k + RoundDiv((p % v) * k, v)

\* AerodynamicsEngine.calculate_mach_number (speed in Milli; result Micro)
calculate_mach_number(air, velocity) == RoundDiv(velocity * 1000, air.speed_of_sound)

\* get_drag_coefficient with each regime closed at its upper end
get_drag_coefficientClosedIntervals(obj_type, reynolds, mach, angle) ==
    LET angle_rad == RoundDiv(RadMicro(angle), 1000)
        sq        == angle_rad * angle_rad
    IN
    IF obj_type = "jet" THEN
        LET base_cd      == 20000
            induced_drag == RoundDiv(sq, 10)
            dm           == RoundDiv(mach - 800000, 1000)
            wave_drag    == IF mach > 800000 THEN RoundDiv(dm * dm, 20) ELSE 0
        IN  base_cd + induced_drag + wave_drag
    ELSE IF obj_type = "sphere" THEN
        IF reynolds <= 100 THEN RoundDiv(24000000, reynolds) * 100
        ELSE IF reynolds <= 100000 THEN
            RoundDiv(RoundDiv(24000000, reynolds) * (1000 + RoundDiv(15 * Pow0687(reynolds), 100)), 10)
        ELSE 440000
    ELSE IF obj_type = "cylinder" THEN
        IF reynolds <= 100 THEN RoundDiv(25132741, reynolds) * 100
        ELSE IF reynolds <= 4000 THEN 1000000
        ELSE IF reynolds <= 100000 THEN 1200000
        ELSE 300000
    ELSE IF obj_type = "cube" THEN
        1050000 + RoundDiv(Abs(SinMicro(2 * angle)), 5)
    ELSE IF obj_type = "airfoil" THEN
        LET base_cd      == 10000
            induced_drag == RoundDiv(sq, 20)
        IN  base_cd + induced_drag
    ELSE 500000

\* AerodynamicsEngine.get_drag_coefficient (result Micro)
get_drag_coefficient(obj_type, reynolds, mach, angle) ==
    LET angle_rad == RoundDiv(RadMicro(angle), 1000)
        sq        == angle_rad * angle_rad
    IN
    IF obj_type = "jet" THEN
        LET base_cd      == 20000
            induced_drag == RoundDiv(sq, 10)
            dm           == RoundDiv(mach - 800000, 1000)
            wave_drag    == IF mach > 800000 THEN RoundDiv(dm * dm, 20) ELSE 0
        IN  base_cd + induced_drag + wave_drag
    ELSE IF obj_type = "sphere" THEN
        IF reynolds < 100 THEN RoundDiv(24000000, reynolds) * 100
        ELSE IF reynolds < 100000 THEN
            RoundDiv(RoundDiv(24000000, reynolds) * (1000 + RoundDiv(15 * Pow0687(reynolds), 100)), 10)
        ELSE 440000
    ELSE IF obj_type = "cylinder" THEN
        IF reynolds < 100 THEN RoundDiv(25132741, reynolds) * 100
        ELSE IF reynolds < 4000 THEN 1000000
        ELSE IF reynolds < 100000 THEN 1200000
        ELSE 300000
    ELSE IF obj_type = "cube" THEN
        1050000 + RoundDiv(Abs(SinMicro(2 * angle)), 5)
    ELSE IF obj_type = "airfoil" THEN
        LET base_cd      == 10000
            induced_drag == RoundDiv(sq, 20)
        IN  base_cd + induced_drag
    ELSE 500000

\* AerodynamicsEngine.calculate_lift_coefficient (result Micro)
calculate_lift_coefficient(obj_type, angle, reynolds) ==
    LET angle_rad == RoundDiv(RadMicro(angle), 1000)
    IN
    IF obj_type = "jet" THEN
        RoundDiv(RoundDiv(8 * SinMicro(2 * angle), 10) * (1000 - RoundDiv(Abs(angle) * 1000, 180)), 1000)
    ELSE IF obj_type = "airfoil" THEN
        RoundDiv(6283 * angle_rad, 1000) * (1000 - RoundDiv(Abs(angle) * 1000, 45))
    ELSE RoundDiv(SinMicro(2 * angle), 10)

\* a zero bundle that carries coefficients, all zero
ZeroForcesWithCoefficients ==
    [drag |-> ZeroVec, lift |-> ZeroVec, side_force |-> ZeroVec, total |-> ZeroVec,
     coefficients |-> [cd |-> 0, cl |-> 0, reynolds |-> 0, mach |-> 0]]

\* the bundle returned when the relative speed is below 1e-6: no 'coefficients' key
ZeroForces ==
    [drag |-> ZeroVec, lift |-> ZeroVec, side_force |-> ZeroVec, total |-> ZeroVec]

\* calculate_forces with the drag along the relative velocity
calculate_forcesDragAlongVelocity(air, geometry, velocity, angle, wind_velocity) ==
    LET relative_velocity == VSub(velocity, wind_velocity)
        speed             == Norm(relative_velocity)
    IN
    IF speed * 1000 < 1 THEN ZeroForces
    ELSE
        LET velocity_unit == <<RoundDiv(relative_velocity[1] * 1000, speed),
                               RoundDiv(relative_velocity[2] * 1000, speed),
                               RoundDiv(relative_velocity[3] * 1000, speed)>>
            reynolds == calculate_reynolds_number(air, speed, geometry.length)
            mach     == calculate_mach_number(air, speed)
            cd       == get_drag_coefficient(geometry.object_type, reynolds, mach, angle)
            cl       == calculate_lift_coefficient(geometry.object_type, angle, reynolds)
            q        == RoundDiv(RoundDiv(speed * speed, 2000) * air.density, 1000)
            drag_magnitude == MulM(MulM(RoundDiv(cd, 1000), geometry.frontal_area), q)
            drag_force     == VScaleM(velocity_unit, drag_magnitude)
            lift_magnitude == MulM(MulM(RoundDiv(cl, 1000), geometry.frontal_area), q)
            lift_direction == IF Abs(velocity_unit[1]) > 100 THEN <<0, 1000, 0>>
                              ELSE <<1000, 0, 0>>
            lift_force     == VScaleM(lift_direction, lift_magnitude)
            side_force     == ZeroVec
            total_force    == VAdd(VAdd(drag_force, lift_force), side_force)
        IN  [drag |-> drag_force, lift |-> lift_force, side_force |-> side_force,
             total |-> total_force,
             coefficients |-> [cd |-> cd, cl |-> cl, reynolds |-> reynolds, mach |-> mach]]

\* AerodynamicsEngine.calculate_forces
calculate_forces(air, geometry, velocity, angle, wind_velocity) ==
    LET relative_velocity == VSub(velocity, wind_velocity)
        speed             == Norm(relative_velocity)
    IN
    IF speed * 1000 < 1 THEN ZeroForces
    ELSE
        LET velocity_unit == <<RoundDiv(relative_velocity[1] * 1000, speed),
                               RoundDiv(relative_velocity[2] * 1000, speed),
                               RoundDiv(relative_velocity[3] * 1000, speed)>>
            reynolds == calculate_reynolds_number(air, speed, geometry.length)
            mach     == calculate_mach_number(air, speed)
            cd       == get_drag_coefficient(geometry.object_type, reynolds, mach, angle)
            cl       == calculate_lift_coefficient(geometry.object_type, angle, reynolds)
            q        == RoundDiv(RoundDiv(speed * speed, 2000) * air.density, 1000)
            drag_magnitude == MulM(MulM(RoundDiv(cd, 1000), geometry.frontal_area), q)
            drag_force     == VScaleM(velocity_unit, -drag_magnitude)
            lift_magnitude == MulM(MulM(RoundDiv(cl, 1000), geometry.frontal_area), q)
            lift_direction == IF Abs(velocity_unit[1]) > 100 THEN <<0, 1000, 0>>
                              ELSE <<1000, 0, 0>>
            lift_force     == VScaleM(lift_direction, lift_magnitude)
            side_force     == ZeroVec
            total_force    == VAdd(VAdd(drag_force, lift_force), side_force)
        IN  [drag |-> drag_force, lift |-> lift_force, side_force |-> side_force,
             total |-> total_force,
             coefficients |-> [cd |-> cd, cl |-> cl, reynolds |-> reynolds, mach |-> mach]]

\* AerodynamicsEngine.generate_flow_field: the potential-flow grid is a function of
\* the free-stream speed and the obstacle radius; the snapshot keeps those and the
\* number of seed points (of the 10 on the left boundary) that are traced.
generate_flow_field(geometry, velocity, angle, domain_size) ==
    LET y_max      == domain_size[2]
        speed      == Norm(<<velocity[1], velocity[2], 0>>)
        obj_radius == Max(geometry.width, geometry.height) \div 2
        \* start_y = -y_max/3 + k * (2*y_max/3)/9, abs(start_y) > obj_radius * 1.5
        traced     == {k \in 0..9 : Abs(2 * k - 9) * 2 * y_max > 81 * obj_radius}
    IN  [speed |-> speed, obj_radius |-> obj_radius, streamlines |-> Cardinality(traced)]

\* float('inf'), the lift-to-drag ratio when the drag is below 1e-6
FloatInf == -1

\* AerodynamicsEngine.calculate_aerodynamic_efficiency; the division by
\* max(width, height) raises ZeroDivisionError when both are 0
calculate_aerodynamic_efficiency(forces, geometry) ==
    LET drag_force == Norm(forces.drag)
        lift_force == Norm(forces.lift)
        widest     == Max(geometry.width, geometry.height)
    IN
    IF widest = 0 THEN [raised |-> "ZeroDivisionError"]
    ELSE [raised |-> "",
          lift_to_drag_ratio |-> IF drag_force * 1000 > 1
                                 THEN RoundDiv(lift_force * 1000, drag_force)
                                 ELSE FloatInf,
          drag_area |-> geometry.frontal_area,
          fineness_ratio |-> RoundDiv(geometry.length * 1000, widest),
          drag_coefficient |-> IF "coefficients" \in DOMAIN forces
                               THEN forces.coefficients.cd ELSE 0,
          lift_coefficient |-> IF "coefficients" \in DOMAIN forces
                               THEN forces.coefficients.cl ELSE 0]

(***************************************************************************)
(* simulation.py: SimulationParameters, SimulationResults, SimulationManager*)
(***************************************************************************)
\* self.geometry = None
NoGeometry == [k \in {} |-> 0]

\* SimulationParameters()
DefaultParameters ==
    [dt |-> D_0_001, max_time |-> D_10_0, wind_velocity |-> <<10000, 0, 0>>,
     wind_angle |-> 0, object_angle |-> 0, gravity |-> <<0, -9810, 0>>,
     air_density |-> 1225, enable_turbulence |-> FALSE, turbulence_intensity |-> 100]

\* SimulationResults()
EmptyResults ==
    [time_history |-> <<>>, position_history |-> <<>>, velocity_history |-> <<>>,
     acceleration_history |-> <<>>, force_history |-> <<>>, flow_fields |-> <<>>,
     efficiency_metrics |-> <<>>]

\* the empty dict {}
EmptyDict == [k \in {} |-> 0]

\* SimulationState(...) as built by __init__ and reset_simulation
NewState(velocity) ==
    [position |-> ZeroVec, velocity |-> velocity, acceleration |-> ZeroVec,
     angular_velocity |-> ZeroVec, time |-> DblZero, forces |-> EmptyDict,
     moments |-> EmptyDict]

\* SimulationManager.__init__
NewManager ==
    [engine |-> [air_props |-> AirProperties],
     is_running |-> FALSE, is_paused |-> FALSE, current_time |-> DblZero,
     results |-> EmptyResults, parameters |-> DefaultParameters,
     state |-> NewState(ZeroVec), geometry |-> NoGeometry, callbacks |-> <<>>]

\* np.pi in Milli
PiMilli == 3142

\* SimulationManager.set_object_geometry (dimensions and areas in Milli)
set_object_geometry(m, obj_type, length, width, height) ==
    LET radius == width \div 2
        ellipse == MulM(PiMilli, MulM(width \div 2, height \div 2))
        disc    == MulM(PiMilli, MulM(radius, radius))
        box     == 2 * (MulM(width, height) + MulM(width, length) + MulM(height, length))
        frontal_area ==
            IF obj_type = "jet" THEN ellipse
            ELSE IF obj_type \in {"sphere", "cylinder"} THEN disc
            ELSE MulM(width, height)
        surface_area ==
            IF obj_type = "jet" THEN MulM(2 * PiMilli, MulM(width \div 2, length))
            ELSE IF obj_type = "sphere" THEN 4 * disc
            ELSE IF obj_type = "cylinder" THEN MulM(2 * PiMilli, MulM(radius, radius + length))
            ELSE box
        volume ==
            IF obj_type = "jet" THEN RoundDiv(MulM(ellipse, length) * 7, 10)
            ELSE IF obj_type = "sphere" THEN RoundDiv(4 * MulM(disc, radius), 3)
            ELSE IF obj_type = "cylinder" THEN MulM(disc, length)
            ELSE MulM(MulM(width, height), length)
    IN  [m EXCEPT !.geometry =
            [length |-> length, width |-> width, height |-> height,
             frontal_area |-> frontal_area, surface_area |-> surface_area,
             volume |-> volume, object_type |-> obj_type]]

\* set_parameters that applies nothing when one of the names is no attribute
set_parametersAllOrNothing(m, kwargs) ==
    IF DOMAIN kwargs \subseteq DOMAIN m.parameters
    THEN [m EXCEPT !.parameters =
            [key \in DOMAIN m.parameters |->
                IF key \in DOMAIN kwargs THEN kwargs[key] ELSE m.parameters[key]]]
    ELSE m

\* SimulationManager.set_parameters(**kwargs): kwargs is a function from names to
\* values; a name that is no attribute of SimulationParameters is skipped
set_parameters(m, kwargs) ==
    [m EXCEPT !.parameters =
        [key \in DOMAIN m.parameters |->
            IF key \in DOMAIN kwargs THEN kwargs[key] ELSE m.parameters[key]]]

\* SimulationManager.add_callback
add_callback(m, callback) == [m EXCEPT !.callbacks = Append(@, callback)]

\* a reset that leaves the object at rest
reset_simulationAtRest(m) ==
    [m EXCEPT !.current_time = DblZero,
              !.is_running = FALSE,
              !.is_paused = FALSE,
              !.results = EmptyResults,
              !.state = NewState(ZeroVec)]

\* SimulationManager.reset_simulation
reset_simulation(m) ==
    [m EXCEPT !.current_time = DblZero,
              !.is_running = FALSE,
              !.is_paused = FALSE,
              !.results = EmptyResults,
              !.state = NewState(m.parameters.wind_velocity)]

\* SimulationManager.pause_simulation / resume_simulation / stop_simulation
pause_simulation(m) == [m EXCEPT !.is_paused = TRUE]

resume_simulation(m) == [m EXCEPT !.is_paused = FALSE]

stop_simulation(m) == [m EXCEPT !.is_running = FALSE, !.is_paused = FALSE]

(***************************************************************************)
(* SimulationManager.step_simulation, statement by statement               *)
(***************************************************************************)
\* an early return only after max_time has been passed
StepRefusedPastMaxTime(m) ==
    m.geometry = NoGeometry \/ DblLess(m.parameters.max_time, m.current_time)

\* line 137: the early return
StepRefused(m) ==
    m.geometry = NoGeometry \/ DblGeq(m.current_time, m.parameters.max_time)

\* lines 141-147: the wind vector from the wind speed and the wind angle
WindVector(m) ==
    LET wind_speed == Norm(m.parameters.wind_velocity)
    IN  <<MulM(wind_speed, RoundDiv(CosMicro(m.parameters.wind_angle), 1000)),
          MulM(wind_speed, RoundDiv(SinMicro(m.parameters.wind_angle), 1000)),
          0>>

\* lines 150-152: np.random.normal(0, intensity, 3) raises ValueError for a negative
\* scale; z is the standard-normal sample, in Milli
TurbulenceRaises(m) ==
    m.parameters.enable_turbulence /\ m.parameters.turbulence_intensity < 0

\* the wind disturbed whether or not enable_turbulence is set
TurbulentAlways(m, wind, z) ==
    LET wind_speed == Norm(m.parameters.wind_velocity)
        turbulence == VScaleM(z, m.parameters.turbulence_intensity)
    IN  VAdd(wind, VScaleM(turbulence, wind_speed))

Turbulent(m, wind, z) ==
    IF m.parameters.enable_turbulence
    THEN LET wind_speed == Norm(m.parameters.wind_velocity)
             turbulence == VScaleM(z, m.parameters.turbulence_intensity)
         IN  VAdd(wind, VScaleM(turbulence, wind_speed))
    ELSE wind

\* lines 155-160
StepForces(m, z) ==
    calculate_forces(m.engine.air_props, m.geometry, m.state.velocity,
                     m.parameters.object_angle, Turbulent(m, WindVector(m), z))

\* the update of the velocity in place on an array shared with wind_velocity
IntegrateIntoWindVelocity(m, forces) ==
    LET dt           == DblToMilli(m.parameters.dt)
        acceleration == VAdd(forces.total, m.parameters.gravity)
        velocity     == VAdd(m.state.velocity, VScaleM(acceleration, dt))
        position     == VAdd(m.state.position, VScaleM(velocity, dt))
        current_time == DblAdd(m.current_time, m.parameters.dt)
    IN  [m EXCEPT !.current_time = current_time,
                  !.parameters.wind_velocity = velocity,
                  !.state = [@ EXCEPT !.acceleration = acceleration,
                                      !.velocity = velocity,
                                      !.position = position,
                                      !.time = current_time,
                                      !.forces = forces]]

\* explicit Euler: the position advanced with the velocity before the update
IntegrateExplicitEuler(m, forces) ==
    LET dt           == DblToMilli(m.parameters.dt)
        acceleration == VAdd(forces.total, m.parameters.gravity)
        velocity     == VAdd(m.state.velocity, VScaleM(acceleration, dt))
        position     == VAdd(m.state.position, VScaleM(m.state.velocity, dt))
        current_time == DblAdd(m.current_time, m.parameters.dt)
    IN  [m EXCEPT !.current_time = current_time,
                  !.state = [@ EXCEPT !.acceleration = acceleration,
                                      !.velocity = velocity,
                                      !.position = position,
                                      !.time = current_time,
                                      !.forces = forces]]

\* the integration under the gravity the parameters were constructed with
IntegrateUnderDefaultGravity(m, forces) ==
    LET dt           == DblToMilli(m.parameters.dt)
        acceleration == VAdd(forces.total, DefaultParameters.gravity)
        velocity     == VAdd(m.state.velocity, VScaleM(acceleration, dt))
        position     == VAdd(m.state.position, VScaleM(velocity, dt))
        current_time == DblAdd(m.current_time, m.parameters.dt)
    IN  [m EXCEPT !.current_time = current_time,
                  !.state = [@ EXCEPT !.acceleration = acceleration,
                                      !.velocity = velocity,
                                      !.position = position,
                                      !.time = current_time,
                                      !.forces = forces]]

\* lines 164-174: semi-implicit Euler with unit mass
Integrate(m, forces) ==
    LET dt           == DblToMilli(m.parameters.dt)
        acceleration == VAdd(forces.total, m.parameters.gravity)
        velocity     == VAdd(m.state.velocity, VScaleM(acceleration, dt))
        position     == VAdd(m.state.position, VScaleM(velocity, dt))
        current_time == DblAdd(m.current_time, m.parameters.dt)
    IN  [m EXCEPT !.current_time = current_time,
                  !.state = [@ EXCEPT !.acceleration = acceleration,
                                      !.velocity = velocity,
                                      !.position = position,
                                      !.time = current_time,
                                      !.forces = forces]]

\* lines 177-181, one append each
AppendTime(m) == [m EXCEPT !.results.time_history = Append(@, m.current_time)]

AppendPosition(m) == [m EXCEPT !.results.position_history = Append(@, m.state.position)]

\* line 179 without the copy(): every entry is the one array that line 168
\* updates in place, so every entry reads as the current velocity
AppendVelocityUncopied(m) ==
    [m EXCEPT !.results.velocity_history =
        [i \in 1..(Len(@) + 1) |-> m.state.velocity]]

\* line 179: a copy of the array is appended
AppendVelocity(m) == [m EXCEPT !.results.velocity_history = Append(@, m.state.velocity)]

AppendAcceleration(m) ==
    [m EXCEPT !.results.acceleration_history = Append(@, m.state.acceleration)]

AppendForces(m, forces) == [m EXCEPT !.results.force_history = Append(@, forces)]

\* lines 177-180 alone
StoreResultsWithoutForces(m, forces) ==
    AppendAcceleration(AppendVelocity(AppendPosition(AppendTime(m))))

\* lines 177-181 together
StoreResults(m, forces) ==
    AppendForces(AppendAcceleration(AppendVelocity(AppendPosition(AppendTime(m)))), forces)

\* line 184
SnapshotDue(m) == Len(m.results.time_history) % 10 = 0

\* lines 185-191
AppendFlowField(m) ==
    [m EXCEPT !.results.flow_fields =
        Append(@, generate_flow_field(m.geometry, m.state.velocity,
                                      m.parameters.object_angle, <<20000, 10000>>))]

\* lines 194-195; the call at line 194 may raise
EfficiencyRaises(m, forces) ==
    calculate_aerodynamic_efficiency(forces, m.geometry).raised # ""

AppendEfficiency(m, forces) ==
    [m EXCEPT !.results.efficiency_metrics =
        Append(@, calculate_aerodynamic_efficiency(forces, m.geometry))]

\* SimulationManager.get_current_data
get_current_data(m) ==
    [time |-> m.current_time, state |-> m.state, parameters |-> m.parameters,
     geometry |-> m.geometry, is_running |-> m.is_running, is_paused |-> m.is_paused]

\* lines 198-202: every callback is called with get_current_data(); a callback is
\* "ok" or "raise", and the Exception a "raise" callback raises is caught at line
\* 201.  The value is the calls made, in order, each with the time it is given
\* and the number of entries the log holds when it is made, and the exception
\* that leaves the loop ("": none).
\* The same loop without the try of line 199: the first exception leaves it.
CallCallbacksUncaught(m) ==
    LET raising == {i \in 1..Len(m.callbacks) : m.callbacks[i] = "raise"}
        last    == IF raising = {} THEN Len(m.callbacks)
                   ELSE CHOOSE i \in raising : \A j \in raising : i <= j
    IN  [called |-> [i \in 1..last |->
                        [callback |-> i, time |-> m.current_time,
                         entries |-> Len(m.results.time_history)]],
         raised |-> IF raising = {} THEN "" ELSE "Exception"]

CallCallbacks(m) ==
    [called |-> [i \in 1..Len(m.callbacks) |->
                    [callback |-> i, time |-> get_current_data(m).time,
                     entries |-> Len(m.results.time_history)]],
     raised |-> ""]

\* lines 184-204: the snapshot on every 10th entry, the callbacks, return True
FinishStep(m, forces) ==
    IF SnapshotDue(m) /\ EfficiencyRaises(m, forces)
    THEN [sim |-> AppendFlowField(m), value |-> FALSE,
          raised |-> "ZeroDivisionError", called |-> <<>>]
    ELSE LET snapped == IF SnapshotDue(m)
                        THEN AppendEfficiency(AppendFlowField(m), forces)
                        ELSE m
             cb      == CallCallbacks(snapped)
         IN  [sim |-> snapped, value |-> cb.raised = "", raised |-> cb.raised,
              called |-> cb.called]

\* step_simulation with the callbacks of lines 198-202 called ahead of the
\* appends of lines 177-181
step_simulationCallbacksFirst(m, z) ==
    IF StepRefused(m)
    THEN [sim |-> m, value |-> FALSE, raised |-> "", called |-> <<>>]
    ELSE IF TurbulenceRaises(m)
    THEN [sim |-> m, value |-> FALSE, raised |-> "ValueError", called |-> <<>>]
    ELSE LET forces     == StepForces(m, z)
             integrated == Integrate(m, forces)
             r          == FinishStep(StoreResults(integrated, forces), forces)
         IN  [r EXCEPT !.called = IF r.raised = "" THEN CallCallbacks(integrated).called
                                  ELSE <<>>]

\* The whole of step_simulation: the manager afterwards, the value returned, the
\* exception that left the call ("" when it returned) and the callbacks called.
step_simulation(m, z) ==
    IF StepRefused(m)
    THEN [sim |-> m, value |-> FALSE, raised |-> "", called |-> <<>>]
    ELSE IF TurbulenceRaises(m)
    THEN [sim |-> m, value |-> FALSE, raised |-> "ValueError", called |-> <<>>]
    ELSE LET forces == StepForces(m, z)
         IN  FinishStep(StoreResults(Integrate(m, forces), forces), forces)

\* lines 215-226 of run_simulation with no other thread: the loop from step_count
\* on, and is_running = False after it; an exception of step_simulation leaves
\* the call before line 226.  While is_paused holds the loop makes no progress, so
\* the caller sees to it that it does not.  (r ranges over the one result of the
\* step.)
RECURSIVE RunLoop(_, _, _, _, _)
RunLoop(m, step_count, max_steps, z, called) ==
    IF step_count >= max_steps \/ ~m.is_running
    THEN [sim |-> [m EXCEPT !.is_running = FALSE], raised |-> "", called |-> called]
    ELSE CHOOSE result \in
            {IF r.raised # ""
             THEN [sim |-> r.sim, raised |-> r.raised, called |-> called \o r.called]
             ELSE IF ~r.value
             THEN [sim |-> [r.sim EXCEPT !.is_running = FALSE], raised |-> "",
                   called |-> called \o r.called]
             ELSE RunLoop(r.sim, step_count + 1, max_steps, z, called \o r.called)
                : r \in {step_simulation(m, z)}} : TRUE

\* the truth value of `steps` on line 213: None and 0 are both false
StepsGiven(steps) == steps # <<>> /\ steps[1] # 0

\* line 213: max_steps = steps if steps else int(max_time / dt)
MaxSteps(m, steps) ==
    IF StepsGiven(steps) THEN steps[1]
    ELSE DblIntDiv(m.parameters.max_time, m.parameters.dt)

\* run_simulation with line 211 ahead of line 208
run_simulationBeforeTheCheck(m, steps, z) ==
    IF m.geometry = NoGeometry
    THEN [sim |-> [m EXCEPT !.is_running = TRUE], raised |-> "ValueError",
          called |-> <<>>]
    ELSE IF ~StepsGiven(steps) /\ IsZero(m.parameters.dt)
    THEN [sim |-> [m EXCEPT !.is_running = TRUE], raised |-> "ZeroDivisionError",
          called |-> <<>>]
    ELSE RunLoop([m EXCEPT !.is_running = TRUE], 0, MaxSteps(m, steps), z, <<>>)

\* SimulationManager.run_simulation(steps): steps is <<>> for a call without the
\* argument (None) and <<n>> for steps = n; line 213 divides after line 211 has
\* set is_running
run_simulation(m, steps, z) ==
    IF m.geometry = NoGeometry
    THEN [sim |-> m, raised |-> "ValueError", called |-> <<>>]
    ELSE IF ~StepsGiven(steps) /\ IsZero(m.parameters.dt)
    THEN [sim |-> [m EXCEPT !.is_running = TRUE], raised |-> "ZeroDivisionError",
          called |-> <<>>]
    ELSE RunLoop([m EXCEPT !.is_running = TRUE], 0, MaxSteps(m, steps), z, <<>>)

\* lines 137-181 taken up to `steps` times: the steps of a run with the snapshot
\* of lines 183-195 and the callbacks left out
RECURSIVE StepsWithoutSnapshot(_, _, _)
StepsWithoutSnapshot(m, steps, z) ==
    IF steps = 0 \/ StepRefused(m) THEN m
    ELSE CHOOSE result \in
            {StepsWithoutSnapshot(StoreResults(Integrate(m, forces), forces),
                                  steps - 1, z) : forces \in {StepForces(m, z)}} : TRUE

\* np.max, sum and np.mean of a non-empty list of Milli values
SeqMax(s) == CHOOSE x \in {s[i] : i \in DOMAIN s} : \A i \in DOMAIN s : s[i] <= x

RECURSIVE SeqSum(_)
SeqSum(s) == IF s = <<>> THEN 0 ELSE s[1] + SeqSum(Tail(s))

SeqMean(s) == RoundDiv(SeqSum(s), Len(s))

\* get_analysis_data that reports no efficiency snapshot
get_analysis_dataWithoutEfficiency(m) ==
    IF m.results.time_history = <<>> THEN EmptyDict
    ELSE [time_stats |-> [total_time |-> m.current_time,
                          time_steps |-> Len(m.results.time_history),
                          dt |-> m.parameters.dt],
          efficiency_stats |-> EmptyDict]

\* SimulationManager.get_analysis_data (speeds, forces, positions and energies
\* per unit mass in Milli)
get_analysis_data(m) ==
    IF m.results.time_history = <<>> THEN EmptyDict
    ELSE
        LET r         == m.results
            speeds    == [i \in DOMAIN r.velocity_history |->
                             Norm(r.velocity_history[i])]
            kinetic   == [i \in DOMAIN speeds |-> RoundDiv(MulM(speeds[i], speeds[i]), 2)]
            potential == [i \in DOMAIN r.position_history |->
                             MulM(-m.parameters.gravity[2], r.position_history[i][2])]
            total     == [i \in DOMAIN kinetic |-> kinetic[i] + potential[i]]
            drag      == [i \in DOMAIN r.force_history |-> Norm(r.force_history[i].drag)]
            lift      == [i \in DOMAIN r.force_history |-> Norm(r.force_history[i].lift)]
            n         == Len(speeds)
        IN  [time_stats |-> [total_time |-> m.current_time,
                             time_steps |-> Len(r.time_history),
                             dt |-> m.parameters.dt],
             motion_stats |->
                [max_speed |-> SeqMax(speeds),
                 avg_speed |-> SeqMean(speeds),
                 final_speed |-> speeds[n],
                 max_position |->
                    [k \in 1..3 |->
                        SeqMax([i \in DOMAIN r.position_history |->
                                   Abs(r.position_history[i][k])])]],
             energy_stats |->
                [initial_ke |-> kinetic[1],
                 final_ke |-> kinetic[n],
                 energy_loss |-> IF n > 1 THEN total[1] - total[n] ELSE 0],
             force_stats |->
                [max_drag |-> SeqMax(drag), avg_drag |-> SeqMean(drag),
                 max_lift |-> SeqMax(lift), avg_lift |-> SeqMean(lift)],
             efficiency_stats |->
                IF r.efficiency_metrics # <<>>
                THEN r.efficiency_metrics[Len(r.efficiency_metrics)]
                ELSE EmptyDict]

(***************************************************************************)
(* Bounds of the model                                                     *)
(***************************************************************************)
\* steps recorded between two resets
MaxLog == 11

\* configuration calls made between two resets while the log is not empty
MaxChanges == 1

(***************************************************************************)
(* The manager driven by one caller                                        *)
(***************************************************************************)
VARIABLES
    sim,      \* the SimulationManager
    before,   \* the SimulationManager as it was when the last call was made
    ret,      \* the last call: its name, the value returned, the exception raised,
              \* and the callbacks it called
    changes,  \* configuration calls since the log was last empty
    worker,   \* the thread in a stepping loop: its position and its locals
    gui,      \* the main thread of the application
    reader,   \* the main thread inside get_latest_data, and what it has read
    halt      \* the pause or stop in force, and the steps recorded since

api == <<before, ret, changes>>

threads == <<worker, gui, reader, halt>>

vars == <<sim, before, ret, changes, worker, gui, reader, halt>>

Returned(call, value, raised, called) ==
    [call |-> call, value |-> value, raised |-> raised, called |-> called]

\* a call together with the arguments it was given
ReturnedWith(call, args, value, raised, called) ==
    [call |-> call, args |-> args, value |-> value, raised |-> raised,
     called |-> called]

\* no SimulationThread, no run_simulation in progress
IdleWorker ==
    [kind |-> "none", pc |-> "idle", running |-> FALSE, step_count |-> 0,
     max_steps |-> 0, forces |-> EmptyDict]

\* nothing read yet: the entry of each sequence that was read, by its index
NothingSeen ==
    [time |-> 0, position |-> 0, velocity |-> 0, acceleration |-> 0, forces |-> 0,
     raised |-> ""]

\* no pause and no stop in force.  While one is, allowance is the number of steps
\* the loop had let through when it was called, and steps the number recorded since.
NotInForce == [in_force |-> FALSE, allowance |-> 0, steps |-> 0]

NoHalt == [pause |-> NotInForce, stop |-> NotInForce]

Init ==
    /\ sim = NewManager
    /\ before = NewManager
    /\ ret = Returned("__init__", FALSE, "", <<>>)
    /\ changes = 0
    /\ worker = IdleWorker
    /\ gui = [pc |-> "idle", simulation_thread |-> FALSE]
    /\ reader = [pc |-> "idle", seen |-> NothingSeen]
    /\ halt = NoHalt

LogLen == Len(sim.results.time_history)

\* a configuration call counts against MaxChanges once steps have been recorded
Configure ==
    IF LogLen = 0 THEN changes' = changes
    ELSE changes < MaxChanges /\ changes' = changes + 1

GeometryInputs ==
    {<<"sphere", 200, 200, 200>>, <<"cube", 1000, 0, 0>>}

ParameterInputs ==
    {[dt |-> D_0_1, max_time |-> D_1_0],
     [dt |-> D_0_25, max_time |-> D_0_5],
     [dt |-> D_m0_1]}

SetObjectGeometry(g) ==
    /\ Configure
    /\ sim' = set_object_geometry(sim, g[1], g[2], g[3], g[4])
    /\ before' = sim
    /\ ret' = Returned("set_object_geometry", FALSE, "", <<>>)
    /\ UNCHANGED threads

SetParameters(kwargs) ==
    /\ Configure
    /\ sim' = set_parameters(sim, kwargs)
    /\ before' = sim
    /\ ret' = ReturnedWith("set_parameters", kwargs, FALSE, "", <<>>)
    /\ UNCHANGED threads

ResetSimulation ==
    /\ sim' = reset_simulation(sim)
    /\ before' = sim
    /\ ret' = Returned("reset_simulation", FALSE, "", <<>>)
    /\ changes' = 0
    /\ UNCHANGED threads

StepSimulation(z) ==
    /\ StepRefused(sim) \/ LogLen < MaxLog
    /\ \E r \in {step_simulation(sim, z)} :
          /\ sim' = r.sim
          /\ ret' = ReturnedWith("step_simulation", z, r.value, r.raised, r.called)
    /\ before' = sim
    /\ UNCHANGED changes
    /\ UNCHANGED threads

RunSimulation(steps, z) ==
    /\ \/ sim.geometry = NoGeometry
       \/ /\ ~sim.is_paused
          /\ \/ ~StepsGiven(steps) /\ IsZero(sim.parameters.dt)
             \/ LogLen + MaxSteps(sim, steps) <= MaxLog
    /\ \E r \in {run_simulation(sim, steps, z)} :
          /\ sim' = r.sim
          /\ ret' = ReturnedWith("run_simulation", [steps |-> steps, z |-> z], FALSE,
                                 r.raised, r.called)
    /\ before' = sim
    /\ UNCHANGED changes
    /\ UNCHANGED threads

Next ==
    \/ \E g \in GeometryInputs : SetObjectGeometry(g)
    \/ \E kwargs \in ParameterInputs : SetParameters(kwargs)
    \/ ResetSimulation
    \/ StepSimulation(ZeroVec)

Spec == Init /\ [][Next]_vars

(***************************************************************************)
(* The manager with observers and run_simulation, driven by one caller     *)
(***************************************************************************)
\* callbacks registered
MaxCallbacks == 2

\* steps recorded between two resets when observers are registered
MaxObserved == 4

CallbackInputs == {"ok", "raise"}

ObserverGeometryInputs == {<<"sphere", 200, 200, 200>>}

ObserverParameterInputs ==
    {[dt |-> D_0_25, max_time |-> D_0_5],
     [max_time |-> D_1_0, wind_velocity |-> <<0, 5000, 0>>]}

StepsInputs == {<<1>>, <<2>>}

AddCallback(callback) ==
    /\ Len(sim.callbacks) < MaxCallbacks
    /\ sim' = add_callback(sim, callback)
    /\ before' = sim
    /\ ret' = Returned("add_callback", FALSE, "", <<>>)
    /\ UNCHANGED changes
    /\ UNCHANGED threads

PauseSimulation ==
    /\ sim' = pause_simulation(sim)
    /\ before' = sim
    /\ ret' = Returned("pause_simulation", FALSE, "", <<>>)
    /\ UNCHANGED changes
    /\ UNCHANGED threads

NextObservers ==
    \/ \E callback \in CallbackInputs : AddCallback(callback)
    \/ PauseSimulation
    \/ \E g \in ObserverGeometryInputs : SetObjectGeometry(g)
    \/ \E kwargs \in ObserverParameterInputs : SetParameters(kwargs)
    \/ ResetSimulation
    \/ (StepRefused(sim) \/ LogLen < MaxObserved) /\ StepSimulation(ZeroVec)
    \/ \E steps \in StepsInputs :
          /\ sim.geometry = NoGeometry \/ LogLen + steps[1] <= MaxObserved
          /\ RunSimulation(steps, ZeroVec)

SpecObservers == Init /\ [][NextObservers]_vars

(***************************************************************************)
(* The manager reconfigured in the middle of a run, with and without       *)
(* turbulence                                                              *)
(***************************************************************************)
\* steps recorded between two resets while the parameters are varied
MaxConfigLog == 3

ConfigGeometryInputs == {<<"sphere", 200, 200, 200>>}

\* keyword arguments of set_parameters; time_step is no attribute of
\* SimulationParameters
ConfigParameterInputs ==
    {[dt |-> D_0_25, max_time |-> D_0_5],
     [time_step |-> D_0_1, gravity |-> <<0, -1620, 0>>],
     [dt |-> D_0_1, max_time |-> D_1_0, wind_velocity |-> <<0, 5000, 0>>,
      wind_angle |-> 90, object_angle |-> 10, gravity |-> <<0, -1620, 0>>],
     [enable_turbulence |-> TRUE]}

\* values of air_density (kg/m^3, in Milli): the default and its double
AirDensityInputs == {1225, 2450}

\* samples of np.random.normal(0, 1, 3), in Milli
TurbulenceInputs == {ZeroVec, <<1000, -500, 0>>}

NextConfig ==
    \/ \E g \in ConfigGeometryInputs : SetObjectGeometry(g)
    \/ \E kwargs \in ConfigParameterInputs : SetParameters(kwargs)
    \/ ResetSimulation
    \/ \E z \in TurbulenceInputs :
          /\ StepRefused(sim) \/ LogLen < MaxConfigLog
          /\ StepSimulation(z)

SpecConfig == Init /\ [][NextConfig]_vars

(***************************************************************************)
(* Runs long enough for the snapshot of every 10th step, and their analysis*)
(***************************************************************************)
RunParameterInputs == {[dt |-> D_0_1, max_time |-> D_1_0]}

RunStepsInputs == {<<>>, <<0>>, <<2>>, <<3>>}

GetAnalysisData ==
    /\ sim' = sim
    /\ before' = sim
    /\ ret' = ReturnedWith("get_analysis_data", <<>>, get_analysis_data(sim), "", <<>>)
    /\ UNCHANGED changes
    /\ UNCHANGED threads

NextRuns ==
    \/ \E g \in GeometryInputs : SetObjectGeometry(g)
    \/ \E kwargs \in RunParameterInputs : SetParameters(kwargs)
    \/ ResetSimulation
    \/ StepSimulation(ZeroVec)
    \/ \E steps \in RunStepsInputs : RunSimulation(steps, ZeroVec)
    \/ GetAnalysisData

SpecRuns == Init /\ [][NextRuns]_vars

(***************************************************************************)
(* Scenarios: the manager configured before the run, the object velocity   *)
(* assigned by the caller, and the run stepped to its end; the engine's    *)
(* drag-coefficient model called on its own                                *)
(***************************************************************************)
MaxScenarioLog == 51

ScenarioGeometryInputs ==
    {<<"sphere", 2000, 2000, 2000>>, <<"sphere", -200, 200, 200>>,
     <<"cube", 0, 1000, 1000>>}

ScenarioParameterInputs ==
    {[wind_velocity |-> ZeroVec, gravity |-> ZeroVec, dt |-> D_0_01,
      max_time |-> D_0_5],
     [gravity |-> ZeroVec, dt |-> D_0_1, max_time |-> D_1_0],
     [wind_velocity |-> <<0, 5000, 0>>, dt |-> D_0_25, max_time |-> D_0_5]}

VelocityInputs == {<<20000, 0, 0>>}

\* object type, Reynolds number (Centi), Mach number (Micro), angle (degrees)
DragInputs ==
    ObjectType \X {2, 50, 99, 100, 101, 3999, 4000, 4001, 99999, 100000, 200000}
               \X {29155, 900000} \X {0, 10}

\* sim.state.velocity = np.array(velocity), by the caller
SetVelocity(velocity) ==
    /\ sim' = [sim EXCEPT !.state.velocity = velocity]
    /\ before' = sim
    /\ ret' = ReturnedWith("state.velocity", velocity, FALSE, "", <<>>)
    /\ UNCHANGED changes
    /\ UNCHANGED threads

\* sim.step_simulation() in a run of up to MaxScenarioLog steps
ScenarioStep ==
    /\ StepRefused(sim) \/ LogLen < MaxScenarioLog
    /\ \E r \in {step_simulation(sim, ZeroVec)} :
          /\ sim' = r.sim
          /\ ret' = ReturnedWith("step_simulation", ZeroVec, r.value, r.raised,
                                 r.called)
    /\ before' = sim
    /\ UNCHANGED changes
    /\ UNCHANGED threads

\* sim.aero_engine.get_drag_coefficient(obj_type, reynolds, mach, angle)
GetDragCoefficient(in) ==
    /\ sim' = sim
    /\ before' = sim
    /\ ret' = ReturnedWith("get_drag_coefficient", in,
                           get_drag_coefficient(in[1], in[2], in[3], in[4]), "", <<>>)
    /\ UNCHANGED changes
    /\ UNCHANGED threads

NextScenarios ==
    \/ \E g \in ScenarioGeometryInputs : LogLen = 0 /\ SetObjectGeometry(g)
    \/ \E kwargs \in ScenarioParameterInputs : LogLen = 0 /\ SetParameters(kwargs)
    \/ \E velocity \in VelocityInputs : LogLen = 0 /\ SetVelocity(velocity)
    \/ ResetSimulation
    \/ ScenarioStep
    \/ \E in \in DragInputs : sim = NewManager /\ GetDragCoefficient(in)

SpecScenarios == Init /\ [][NextScenarios]_vars

(***************************************************************************)
(* A stepping loop on a second thread; the caller, or the application, on  *)
(* the main thread                                                         *)
(***************************************************************************)
\* steps recorded between two resets while a second thread is stepping
MaxThreadLog == 2

ThreadGeometryInputs == {<<"sphere", 200, 200, 200>>}

ThreadParameterInputs == {[dt |-> D_0_25, max_time |-> D_0_5]}

ThreadStepsInputs == {2}

\* the main thread is in no handler and in no read
MainIdle == gui.pc = "idle" /\ reader.pc = "idle"

\* run_simulation 215-217, SimulationThread.run 202: the loop takes another turn
LoopGoesOn(w, m) ==
    IF w.kind = "run" THEN w.step_count < w.max_steps /\ m.is_running
    ELSE w.running /\ m.is_running

\* a loop that does not look at is_paused
LoopMayStepWhilePaused(m) == TRUE

\* run_simulation 219, SimulationThread.run 203: the turn takes a step
LoopMayStep(m) == ~m.is_paused

\* pause_simulation is called: the step the loop has already let through may
\* still be recorded
PauseHalt ==
    [halt EXCEPT !.pause =
        [in_force |-> TRUE,
         allowance |-> IF worker.pc \in {"step", "integrate", "append_time"}
                       THEN 1 ELSE 0,
         steps |-> 0]]

\* stop_simulation is called; it ends the pause.  A run_simulation that has not
\* yet set is_running is not stopped by it.
StopHalt ==
    [pause |-> NotInForce,
     stop |-> IF worker.pc = "idle" \/ (worker.kind = "run" /\ worker.pc = "begin")
              THEN NotInForce
              ELSE [in_force |-> TRUE,
                    allowance |-> IF worker.pc \in {"test_paused", "step", "integrate",
                                                    "append_time"}
                                  THEN 1 ELSE 0,
                    steps |-> 0]]

\* resume_simulation is called
ResumeHalt == [halt EXCEPT !.pause = NotInForce]

\* a step is recorded
StepHalt ==
    [h \in {"pause", "stop"} |->
        IF halt[h].in_force THEN [halt[h] EXCEPT !.steps = @ + 1] ELSE halt[h]]

\* SimulationResults.get_latest_data read in one piece: the index of the last
\* entry of each sequence
LatestSeen(results) ==
    IF results.time_history = <<>> THEN NothingSeen
    ELSE [time |-> Len(results.time_history),
          position |-> Len(results.position_history),
          velocity |-> Len(results.velocity_history),
          acceleration |-> Len(results.acceleration_history),
          forces |-> Len(results.force_history),
          raised |-> IF <<>> \in {results.position_history, results.velocity_history,
                                  results.acceleration_history, results.force_history}
                     THEN "IndexError" ELSE ""]

-----------------------------------------------------------------------------
\* threading.Thread(target=sim.run_simulation, args=(steps,)).start()
StartRun(steps) ==
    /\ MainIdle
    /\ worker.pc = "idle"
    /\ ~gui.simulation_thread
    /\ worker' = [IdleWorker EXCEPT !.kind = "run", !.pc = "begin", !.max_steps = steps]
    /\ UNCHANGED <<sim, api, gui, reader, halt>>

\* sim.pause_simulation() on the main thread
MainPause ==
    /\ MainIdle
    /\ ~gui.simulation_thread
    /\ sim' = pause_simulation(sim)
    /\ halt' = PauseHalt
    /\ UNCHANGED <<api, worker, gui, reader>>

\* sim.resume_simulation() on the main thread
MainResume ==
    /\ MainIdle
    /\ ~gui.simulation_thread
    /\ sim' = resume_simulation(sim)
    /\ halt' = ResumeHalt
    /\ UNCHANGED <<api, worker, gui, reader>>

\* sim.stop_simulation() on the main thread
MainStop ==
    /\ MainIdle
    /\ ~gui.simulation_thread
    /\ sim' = stop_simulation(sim)
    /\ halt' = StopHalt
    /\ UNCHANGED <<api, worker, gui, reader>>

\* sim.reset_simulation() on the main thread, between two runs
MainReset ==
    /\ MainIdle
    /\ ~gui.simulation_thread
    /\ worker.pc = "idle"
    /\ sim' = reset_simulation(sim)
    /\ halt' = NoHalt
    /\ changes' = 0
    /\ UNCHANGED <<before, ret, worker, gui, reader>>

-----------------------------------------------------------------------------
\* start_simulation without the test of isRunning on lines 354-355
GuiStartWhileRunning ==
    /\ MainIdle
    /\ worker.kind # "run"
    /\ sim' = [reset_simulation(sim) EXCEPT !.is_running = TRUE]
    /\ changes' = 0
    /\ worker' = [IdleWorker EXCEPT !.kind = "thread", !.pc = "begin"]
    /\ gui' = [gui EXCEPT !.simulation_thread = TRUE]
    /\ halt' = NoHalt
    /\ UNCHANGED <<before, ret, reader>>

\* AerodynamicSimulationApp.start_simulation, main_window.py 352-367
GuiStart ==
    /\ MainIdle
    /\ worker.kind # "run"
    /\ IF gui.simulation_thread /\ worker.pc # "idle"
       THEN UNCHANGED <<sim, changes, worker, gui, halt>>
       ELSE /\ sim' = [reset_simulation(sim) EXCEPT !.is_running = TRUE]
            /\ changes' = 0
            /\ worker' = [IdleWorker EXCEPT !.kind = "thread", !.pc = "begin"]
            /\ gui' = [gui EXCEPT !.simulation_thread = TRUE]
            /\ halt' = NoHalt
    /\ UNCHANGED <<before, ret, reader>>

\* AerodynamicSimulationApp.pause_simulation, main_window.py 369-376
GuiPause ==
    /\ MainIdle
    /\ worker.kind # "run"
    /\ IF sim.is_paused
       THEN sim' = resume_simulation(sim) /\ halt' = ResumeHalt
       ELSE sim' = pause_simulation(sim) /\ halt' = PauseHalt
    /\ UNCHANGED <<api, worker, gui, reader>>

\* main_window.py 380-385: stop_simulation(), then SimulationThread.stop() sets
\* running to False and waits for the thread; without a thread the handler goes
\* on to update_displays at once
StopAndWait(waiting) ==
    /\ MainIdle
    /\ worker.kind # "run"
    /\ sim' = stop_simulation(sim)
    /\ halt' = StopHalt
    /\ IF gui.simulation_thread
       THEN /\ worker' = [worker EXCEPT !.running = FALSE]
            /\ gui' = [gui EXCEPT !.pc = waiting]
            /\ UNCHANGED reader
       ELSE /\ reader' = [reader EXCEPT !.seen = LatestSeen(sim.results)]
            /\ UNCHANGED <<worker, gui>>

\* AerodynamicSimulationApp.stop_simulation, main_window.py 378-390
GuiStop ==
    /\ StopAndWait("stop_wait")
    /\ UNCHANGED api

\* AerodynamicSimulationApp.reset_simulation, main_window.py 392-395: with a
\* thread, as far as the wait; without one, stop_simulation, update_displays and
\* the reset of the manager at once
GuiReset ==
    IF gui.simulation_thread
    THEN StopAndWait("reset_wait") /\ UNCHANGED api
    ELSE /\ MainIdle
         /\ worker.kind # "run"
         /\ sim' = reset_simulation(stop_simulation(sim))
         /\ reader' = [reader EXCEPT !.seen = LatestSeen(sim.results)]
         /\ halt' = NoHalt
         /\ changes' = 0
         /\ UNCHANGED <<before, ret, worker, gui>>

\* SimulationThread.wait() returns: main_window.py 385-390, and 394 after a reset
GuiJoined ==
    /\ gui.pc \in {"stop_wait", "reset_wait"}
    /\ worker.pc = "idle"
    /\ gui' = [pc |-> "idle", simulation_thread |-> FALSE]
    /\ reader' = [reader EXCEPT !.seen = LatestSeen(sim.results)]
    /\ IF gui.pc = "reset_wait"
       THEN sim' = reset_simulation(sim) /\ halt' = NoHalt /\ changes' = 0
       ELSE UNCHANGED <<sim, halt, changes>>
    /\ UNCHANGED <<before, ret, worker>>

-----------------------------------------------------------------------------
\* update_displays, main_window.py 428-431, and get_latest_data, simulation.py
\* 38: nothing is read from an empty time_history
ReaderBegin ==
    /\ MainIdle
    /\ reader' = [pc |-> IF sim.results.time_history = <<>> THEN "idle" ELSE "time",
                  seen |-> NothingSeen]
    /\ UNCHANGED <<sim, api, worker, gui, halt>>

\* one of the reads of simulation.py 42-46: sequence[-1]
ReadLast(at, sequence, next) ==
    /\ reader.pc = at
    /\ reader' = IF sequence = <<>>
                 THEN [pc |-> "idle", seen |-> [reader.seen EXCEPT !.raised = "IndexError"]]
                 ELSE [pc |-> next, seen |-> [reader.seen EXCEPT ![at] = Len(sequence)]]
    /\ UNCHANGED <<sim, api, worker, gui, halt>>

ReaderTime == ReadLast("time", sim.results.time_history, "position")

ReaderPosition == ReadLast("position", sim.results.position_history, "velocity")

ReaderVelocity == ReadLast("velocity", sim.results.velocity_history, "acceleration")

ReaderAcceleration ==
    ReadLast("acceleration", sim.results.acceleration_history, "forces")

ReaderForces == ReadLast("forces", sim.results.force_history, "idle")

-----------------------------------------------------------------------------
\* run_simulation 208-213; SimulationThread.run 201.  The ValueError of line 209
\* ends the thread.
WorkerBegin ==
    /\ worker.pc = "begin"
    /\ IF worker.kind = "thread"
       THEN /\ worker' = [worker EXCEPT !.pc = "test_running", !.running = TRUE]
            /\ UNCHANGED <<sim, halt>>
       ELSE IF sim.geometry = NoGeometry
       THEN worker' = IdleWorker /\ UNCHANGED <<sim, halt>>
       ELSE /\ sim' = [sim EXCEPT !.is_running = TRUE]
            /\ worker' = [worker EXCEPT !.pc = "test_running"]
            /\ halt' = [halt EXCEPT !.stop = NotInForce]
    /\ UNCHANGED <<api, gui, reader>>

\* run_simulation 215-217; SimulationThread.run 202
WorkerTestRunning ==
    /\ worker.pc = "test_running"
    /\ worker' = [worker EXCEPT !.pc = IF LoopGoesOn(worker, sim)
                                       THEN "test_paused" ELSE "exit"]
    /\ UNCHANGED <<sim, api, gui, reader, halt>>

\* run_simulation 219 and 224; SimulationThread.run 203 and 211
WorkerTestPaused ==
    /\ worker.pc = "test_paused"
    /\ worker' = [worker EXCEPT !.pc = IF LoopMayStep(sim)
                                       THEN "step" ELSE "test_running"]
    /\ UNCHANGED <<sim, api, gui, reader, halt>>

\* step_simulation 137, and the break of the loop when it returns False
WorkerStep ==
    /\ worker.pc = "step"
    /\ StepRefused(sim) \/ LogLen < MaxThreadLog
    /\ worker' = IF StepRefused(sim) THEN [worker EXCEPT !.pc = "exit"]
                 ELSE IF TurbulenceRaises(sim) THEN IdleWorker
                 ELSE [worker EXCEPT !.pc = "integrate"]
    /\ UNCHANGED <<sim, api, gui, reader, halt>>

\* step_simulation 141-174
WorkerIntegrate ==
    /\ worker.pc = "integrate"
    /\ \E forces \in {StepForces(sim, ZeroVec)} :
          /\ sim' = Integrate(sim, forces)
          /\ worker' = [worker EXCEPT !.pc = "append_time", !.forces = forces]
    /\ UNCHANGED <<api, gui, reader, halt>>

\* step_simulation 177: the step is being recorded
WorkerAppendTime ==
    /\ worker.pc = "append_time"
    /\ sim' = AppendTime(sim)
    /\ worker' = [worker EXCEPT !.pc = "append_position"]
    /\ halt' = StepHalt
    /\ UNCHANGED <<api, gui, reader>>

\* step_simulation 178
WorkerAppendPosition ==
    /\ worker.pc = "append_position"
    /\ sim' = AppendPosition(sim)
    /\ worker' = [worker EXCEPT !.pc = "append_velocity"]
    /\ UNCHANGED <<api, gui, reader, halt>>

\* step_simulation 179
WorkerAppendVelocity ==
    /\ worker.pc = "append_velocity"
    /\ sim' = AppendVelocity(sim)
    /\ worker' = [worker EXCEPT !.pc = "append_acceleration"]
    /\ UNCHANGED <<api, gui, reader, halt>>

\* step_simulation 180
WorkerAppendAcceleration ==
    /\ worker.pc = "append_acceleration"
    /\ sim' = AppendAcceleration(sim)
    /\ worker' = [worker EXCEPT !.pc = "append_forces"]
    /\ UNCHANGED <<api, gui, reader, halt>>

\* step_simulation 181
WorkerAppendForces ==
    /\ worker.pc = "append_forces"
    /\ sim' = AppendForces(sim, worker.forces)
    /\ worker' = [worker EXCEPT !.pc = "finish"]
    /\ UNCHANGED <<api, gui, reader, halt>>

\* step_simulation 184-204, then run_simulation 222 or SimulationThread.run
\* 207-209; an exception that leaves step_simulation ends the thread
WorkerFinish ==
    /\ worker.pc = "finish"
    /\ \E r \in {FinishStep(sim, worker.forces)} :
          /\ sim' = r.sim
          /\ worker' = IF r.raised # "" THEN IdleWorker
                        ELSE [worker EXCEPT
                                 !.pc = "test_running",
                                 !.forces = EmptyDict,
                                 !.step_count = IF worker.kind = "run" THEN @ + 1 ELSE @]
    /\ UNCHANGED <<api, gui, reader, halt>>

\* run_simulation 226; SimulationThread.run 213-214
WorkerExit ==
    /\ worker.pc = "exit"
    /\ sim' = IF worker.kind = "run" THEN [sim EXCEPT !.is_running = FALSE] ELSE sim
    /\ worker' = IdleWorker
    /\ UNCHANGED <<api, gui, reader, halt>>

\* either loop on a second thread, controlled from the main thread
NextThreads ==
    \/ \E g \in ThreadGeometryInputs :
          MainIdle /\ worker.pc = "idle" /\ SetObjectGeometry(g)
    \/ \E kwargs \in ThreadParameterInputs :
          MainIdle /\ worker.pc = "idle" /\ SetParameters(kwargs)
    \/ \E steps \in ThreadStepsInputs : StartRun(steps)
    \/ MainPause
    \/ MainResume
    \/ MainStop
    \/ MainReset
    \/ GuiStart
    \/ GuiPause
    \/ GuiStop
    \/ GuiReset
    \/ GuiJoined
    \/ WorkerBegin
    \/ WorkerTestRunning
    \/ WorkerTestPaused
    \/ WorkerStep
    \/ WorkerIntegrate
    \/ WorkerAppendTime
    \/ WorkerAppendPosition
    \/ WorkerAppendVelocity
    \/ WorkerAppendAcceleration
    \/ WorkerAppendForces
    \/ WorkerFinish
    \/ WorkerExit

SpecThreads == Init /\ [][NextThreads]_vars

\* the application: the SimulationThread steps while the timer of the main thread
\* reads the latest data
NextGui ==
    \/ \E g \in ThreadGeometryInputs :
          MainIdle /\ worker.pc = "idle" /\ SetObjectGeometry(g)
    \/ GuiStart
    \/ GuiStop
    \/ GuiJoined
    \/ ReaderBegin
    \/ ReaderTime
    \/ ReaderPosition
    \/ ReaderVelocity
    \/ ReaderAcceleration
    \/ ReaderForces
    \/ WorkerBegin
    \/ WorkerTestRunning
    \/ WorkerTestPaused
    \/ WorkerStep
    \/ WorkerIntegrate
    \/ WorkerAppendTime
    \/ WorkerAppendPosition
    \/ WorkerAppendVelocity
    \/ WorkerAppendAcceleration
    \/ WorkerAppendForces
    \/ WorkerFinish
    \/ WorkerExit

SpecGui == Init /\ [][NextGui]_vars

(***************************************************************************)
(* Properties of the results log                                           *)
(***************************************************************************)
\* C1: the five per-step sequences of the log have equal length after every call;
\* a step that returned true added one entry to each and a step that returned
\* false added none.
C1_ParallelSequences ==
    LET r == sim.results
        n == Len(r.time_history)
    IN  /\ Len(r.position_history) = n
        /\ Len(r.velocity_history) = n
        /\ Len(r.acceleration_history) = n
        /\ Len(r.force_history) = n
        /\ (ret.call = "step_simulation" /\ ret.raised = "") =>
              n = Len(before.results.time_history) + (IF ret.value THEN 1 ELSE 0)

\* a step recorded after the parameters were changed in the middle of a run
C1_Witness ==
    /\ ret.call = "step_simulation"
    /\ ret.value
    /\ changes > 0
    /\ Len(sim.results.force_history) >= 3

\* C18: the log is append-only: after every call but reset_simulation each of
\* the seven sequences still begins with the entries it held before the call;
\* set_parameters and set_object_geometry leave the log as it is; and the bundle
\* a step records is the one computed from the state and the parameters of that
\* step.
C18_LogAppendOnly ==
    /\ ret.call \notin {"__init__", "reset_simulation"} =>
          \A name \in DOMAIN before.results :
              /\ Len(sim.results[name]) >= Len(before.results[name])
              /\ \A i \in 1..Len(before.results[name]) :
                     sim.results[name][i] = before.results[name][i]
    /\ ret.call \in {"set_parameters", "set_object_geometry"} =>
          sim.results = before.results
    /\ (ret.call = "step_simulation" /\ ~StepRefused(before)
           /\ ~before.parameters.enable_turbulence) =>
          sim.results.force_history[LogLen] =
              calculate_forces(before.engine.air_props, before.geometry,
                               before.state.velocity, before.parameters.object_angle,
                               WindVector(before))

\* the fourth step of a run that was reconfigured on the way: the velocity was
\* updated in place four times and the four recorded velocities differ
C18_Witness ==
    /\ ret.call = "step_simulation"
    /\ ret.value
    /\ changes > 0
    /\ LogLen = 4
    /\ \A i, j \in 1..4 :
           i # j => sim.results.velocity_history[i] # sim.results.velocity_history[j]
    /\ sim.results.velocity_history[4] = sim.state.velocity

\* C19: get_analysis_data changes nothing of the manager; it returns the empty
\* dict while the log is empty, and otherwise time_steps is the number of
\* recorded steps, total_time the last recorded time and efficiency_stats the
\* last recorded efficiency snapshot, the empty dict while none is recorded, as
\* is the case before the 10th step.
C19_AnalysisReadsTheLog ==
    ret.call = "get_analysis_data" =>
        LET r == before.results
            n == Len(r.time_history)
        IN  /\ sim = before
            /\ IF n = 0 THEN ret.value = EmptyDict
               ELSE /\ ret.value.time_stats.time_steps = n
                    /\ ret.value.time_stats.total_time = r.time_history[n]
                    /\ ret.value.efficiency_stats =
                           IF r.efficiency_metrics = <<>> THEN EmptyDict
                           ELSE r.efficiency_metrics[Len(r.efficiency_metrics)]
                    /\ n < 10 => ret.value.efficiency_stats = EmptyDict

\* the analysis of eleven recorded steps of the sphere: the snapshot of the
\* tenth step is reported
C19_Witness ==
    /\ ret.call = "get_analysis_data"
    /\ LogLen = 11
    /\ ret.value.time_stats.time_steps = 11
    /\ ret.value.efficiency_stats # EmptyDict
    /\ ret.value.efficiency_stats.drag_coefficient > 0
    /\ ret.value.motion_stats.max_speed > 0

\* C2: flow_fields and efficiency_metrics both hold one entry for every ten
\* entries of time_history.
C2_SnapshotEveryTenth ==
    /\ Len(sim.results.flow_fields) = LogLen \div 10
    /\ Len(sim.results.efficiency_metrics) = LogLen \div 10

\* C4: with geometry set, dt > 0 unchanged during the run and max_time = N * dt,
\* the step that returns false leaves exactly N entries in time_history.
C4_ExactlyNEntries ==
    LET dt       == DblToMilli(sim.parameters.dt)
        max_time == DblToMilli(sim.parameters.max_time)
    IN  ( /\ ret.call = "step_simulation"
          /\ ~ret.value
          /\ ret.raised = ""
          /\ sim.geometry # NoGeometry
          /\ changes = 0
          /\ Len(sim.results.efficiency_metrics) = Len(sim.results.flow_fields)
          /\ dt > 0
          /\ max_time % dt = 0 )
        => LogLen = max_time \div dt

\* C7: between two resets the time never decreases: a successful step adds dt to
\* the time, records the new time, and time_history is non-decreasing.
C7_TimeNeverDecreases ==
    LET th == sim.results.time_history
    IN  /\ \A i \in 1..(Len(th) - 1) : ~DblLess(th[i + 1], th[i])
        /\ (ret.call = "step_simulation" /\ ret.value) =>
              /\ sim.current_time = DblAdd(before.current_time, before.parameters.dt)
              /\ sim.state.time = sim.current_time
              /\ th[Len(th)] = sim.current_time
              /\ ~DblLess(sim.current_time, before.current_time)

(***************************************************************************)
(* Properties of the calls                                                 *)
(***************************************************************************)
\* C3: while no geometry is set, step_simulation returns false and
\* run_simulation raises ValueError; neither changes the manager, and the log is
\* empty.
C3_NoStepWithoutGeometry ==
    /\ sim.geometry = NoGeometry => sim.results = EmptyResults
    /\ (before.geometry = NoGeometry /\ ret.call = "step_simulation") =>
          sim = before /\ ~ret.value /\ ret.raised = "" /\ ret.called = <<>>
    /\ (before.geometry = NoGeometry /\ ret.call = "run_simulation") =>
          sim = before /\ ret.raised = "ValueError" /\ ret.called = <<>>

\* run_simulation refused on a manager that was configured, paused and observed
C3_Witness ==
    /\ ret.call = "run_simulation"
    /\ ret.raised = "ValueError"
    /\ sim.is_paused
    /\ sim.callbacks # <<>>
    /\ sim.parameters # DefaultParameters

\* C5: a step called when current_time >= max_time returns false, changes nothing
\* and calls no callback.
C5_NoStepAtMaxTime ==
    ( /\ ret.call = "step_simulation"
      /\ DblGeq(before.current_time, before.parameters.max_time) )
    => sim = before /\ ~ret.value /\ ret.raised = "" /\ ret.called = <<>>

\* a step refused at max_time, with geometry set, entries recorded and observers
C5_Witness ==
    /\ ret.call = "step_simulation"
    /\ before.geometry # NoGeometry
    /\ DblGeq(before.current_time, before.parameters.max_time)
    /\ before.results.time_history # <<>>
    /\ before.callbacks # <<>>

\* C6: reset_simulation empties the seven sequences, zeroes time, position and
\* acceleration, clears both flags, sets the velocity to the configured
\* wind_velocity, and keeps geometry, parameters and callbacks.
C6_ResetState ==
    ret.call = "reset_simulation" =>
        /\ sim.results = EmptyResults
        /\ sim.current_time = DblZero
        /\ sim.state.time = DblZero
        /\ sim.state.position = ZeroVec
        /\ sim.state.acceleration = ZeroVec
        /\ ~sim.is_running
        /\ ~sim.is_paused
        /\ sim.state.velocity = before.parameters.wind_velocity
        /\ sim.geometry = before.geometry
        /\ sim.parameters = before.parameters
        /\ sim.callbacks = before.callbacks

\* a reset of a paused manager with entries recorded, observers, and a
\* wind_velocity other than the default
C6_Witness ==
    /\ ret.call = "reset_simulation"
    /\ before.results.time_history # <<>>
    /\ before.is_paused
    /\ before.callbacks # <<>>
    /\ before.parameters.wind_velocity = <<0, 5000, 0>>
    /\ before.state.velocity # before.parameters.wind_velocity

\* C10: a step that is not refused returns true whatever the callbacks raise: it
\* appends its entry once, calls every callback in order, and a run_simulation
\* goes on to the next step.
C10_CallbackExceptionCaught ==
    LET n == Len(before.results.time_history)
    IN  /\ (ret.call = "step_simulation" /\ ~StepRefused(before)) =>
              /\ ret.value
              /\ ret.raised = ""
              /\ sim.results.time_history =
                     Append(before.results.time_history, sim.current_time)
              /\ Len(sim.results.force_history) = n + 1
              /\ Len(ret.called) = Len(sim.callbacks)
              /\ \A i \in 1..Len(ret.called) : ret.called[i].callback = i
        /\ (ret.call = "run_simulation" /\ before.geometry # NoGeometry) =>
              /\ ret.raised = ""
              /\ Len(ret.called) = Len(sim.callbacks) * (LogLen - n)
              /\ \A i \in 1..n :
                     sim.results.time_history[i] = before.results.time_history[i]

\* run_simulation recorded two steps although the first callback raises
C10_Witness ==
    /\ ret.call = "run_simulation"
    /\ sim.callbacks = <<"raise", "ok">>
    /\ LogLen = Len(before.results.time_history) + 2
    /\ Len(ret.called) = 4

(***************************************************************************)
(* Properties of the forces                                                *)
(***************************************************************************)
\* C14: a step taken while the object moves with the wind (relative speed below
\* 1e-6) records a bundle of exactly drag, lift, side_force and total, all zero,
\* and an acceleration equal to the gravity; a step taken at any other relative
\* speed records a bundle whose coefficients are cd, cl, reynolds and mach.
C14_ZeroForcesAtZeroRelativeSpeed ==
    (ret.call = "step_simulation" /\ ~StepRefused(before)
        /\ ~before.parameters.enable_turbulence) =>
        LET n     == Len(sim.results.force_history)
            f     == sim.results.force_history[n]
            speed == Norm(VSub(before.state.velocity, WindVector(before)))
        IN  IF speed * 1000 < 1
            THEN /\ DOMAIN f = {"drag", "lift", "side_force", "total"}
                 /\ \A k \in DOMAIN f : f[k] = <<0, 0, 0>>
                 /\ sim.results.acceleration_history[n] = before.parameters.gravity
            ELSE /\ "coefficients" \in DOMAIN f
                 /\ DOMAIN f.coefficients = {"cd", "cl", "reynolds", "mach"}

\* after a reset the object has the velocity of the wind: the first step records
\* zero forces and the gravity alone, the second step a bundle with coefficients
C14_Witness ==
    /\ ret.call = "step_simulation"
    /\ ret.value
    /\ LogLen = 2
    /\ "coefficients" \notin DOMAIN sim.results.force_history[1]
    /\ sim.results.acceleration_history[1] = <<0, -9810, 0>>
    /\ sim.results.force_history[2].coefficients.cd > 0
    /\ sim.results.force_history[2].drag # <<0, 0, 0>>

\* C15: the snapshot of every 10th step does not feed back: after a step or a
\* run the time, position, velocity and force sequences, the state, the time,
\* the parameters and the geometry are those of the same steps taken without the
\* snapshot.
C15_SnapshotNeverFeedsBack ==
    (ret.call \in {"step_simulation", "run_simulation"}
        /\ before.geometry # NoGeometry) =>
        \E d \in {IF ret.call = "step_simulation"
                   THEN StepsWithoutSnapshot(before, 1, ret.args)
                   ELSE StepsWithoutSnapshot(before, MaxSteps(before, ret.args.steps),
                                             ret.args.z)} :
            /\ sim.results.time_history = d.results.time_history
            /\ sim.results.position_history = d.results.position_history
            /\ sim.results.velocity_history = d.results.velocity_history
            /\ sim.results.force_history = d.results.force_history
            /\ sim.state = d.state
            /\ sim.current_time = d.current_time
            /\ sim.parameters = before.parameters
            /\ sim.geometry = before.geometry

\* C17: the drag a step records at a non-zero relative speed depends on the
\* configured air_density: the same step taken by a manager that differs only in
\* air_density records a different drag.
C17_AirDensityUsed ==
    (ret.call = "step_simulation" /\ ret.value
        /\ sim.results.force_history[LogLen].drag # <<0, 0, 0>>) =>
        \A density \in AirDensityInputs \ {before.parameters.air_density} :
            \E r \in {step_simulation(set_parameters(before, [air_density |-> density]),
                                      ret.args)} :
                r.sim.results.force_history[LogLen].drag #
                    sim.results.force_history[LogLen].drag

(***************************************************************************)
(* Properties of the parameters                                            *)
(***************************************************************************)
\* C11: a set_parameters call raises nothing whatever names it is given; every
\* name that is a field of the parameters takes the value given, every other
\* field keeps its value, no field is added, and nothing else of the manager
\* (state, time, log, geometry, flags, callbacks) changes.
C11_UnknownNamesIgnored ==
    ret.call = "set_parameters" =>
        /\ ret.raised = ""
        /\ DOMAIN sim.parameters = DOMAIN before.parameters
        /\ \A key \in DOMAIN before.parameters :
               sim.parameters[key] = IF key \in DOMAIN ret.args THEN ret.args[key]
                                     ELSE before.parameters[key]
        /\ sim = [before EXCEPT !.parameters = sim.parameters]

\* set_parameters(time_step=..., gravity=...) in the middle of a run: the unknown
\* time_step is skipped and the gravity is changed
C11_Witness ==
    /\ ret.call = "set_parameters"
    /\ "time_step" \in DOMAIN ret.args
    /\ sim.parameters.gravity = <<0, -1620, 0>>
    /\ before.parameters.gravity = <<0, -9810, 0>>
    /\ before.results.time_history # <<>>

\* C16: the parameters always satisfy dt > 0, max_time > 0, air_density > 0 and
\* turbulence_intensity >= 0.
C16_ParametersValid ==
    /\ DblLess(DblZero, sim.parameters.dt)
    /\ DblLess(DblZero, sim.parameters.max_time)
    /\ sim.parameters.air_density > 0
    /\ sim.parameters.turbulence_intensity >= 0

\* C12: a set_parameters call changes no recorded entry, no field of the state
\* and not the time; the step that follows it is refused exactly when the time
\* has reached the max_time now configured, and otherwise advances the time by
\* the dt now configured, computes the forces for the wind_velocity, wind_angle
\* and object_angle now configured, and accelerates by those forces plus the
\* gravity now configured.
C12_NextStepUsesNewParameters ==
    /\ ret.call = "set_parameters" =>
          /\ sim.results = before.results
          /\ sim.state = before.state
          /\ sim.current_time = before.current_time
    /\ (ret.call = "step_simulation" /\ before.geometry # NoGeometry
            /\ ret.raised = "") =>
          LET p  == before.parameters
              n  == Len(sim.results.time_history)
              dt == DblToMilli(p.dt)
          IN  /\ ret.value = ~DblGeq(before.current_time, p.max_time)
              /\ ret.value =>
                    LET f == sim.results.force_history[n]
                        a == sim.results.acceleration_history[n]
                        v == sim.results.velocity_history[n]
                    IN  /\ sim.results.time_history[n] =
                               DblAdd(before.current_time, p.dt)
                        /\ ~p.enable_turbulence =>
                               f = calculate_forces(before.engine.air_props,
                                       before.geometry, before.state.velocity,
                                       p.object_angle, WindVector(before))
                        /\ a = VAdd(f.total, p.gravity)
                        /\ v = VAdd(before.state.velocity, VScaleM(a, dt))
                        /\ sim.results.position_history[n] =
                               VAdd(before.state.position, VScaleM(v, dt))

\* one step with dt = 0.25, then set_parameters with new dt, max_time, gravity,
\* wind_velocity, wind_angle and object_angle, then the step that uses them: the
\* time goes from 0.25 to 0.35, and the lift coefficient is that of 10 degrees
C12_Witness ==
    /\ ret.call = "step_simulation"
    /\ ret.value
    /\ changes = 1
    /\ sim.results.time_history = <<D_0_25, DblAdd(D_0_25, D_0_1)>>
    /\ before.parameters.gravity = <<0, -1620, 0>>
    /\ before.parameters.wind_angle = 90
    /\ sim.results.force_history[2].coefficients.cl # 0
    /\ sim.results.force_history[1].coefficients.cl = 0

\* C13: with enable_turbulence false a step does not depend on the random
\* sample: whatever np.random would have given, the manager after the step, the
\* value returned and the callbacks called are the same, so two managers in the
\* same state given the same calls record the same sequences.
C13_DeterministicWithoutTurbulence ==
    (ret.call = "step_simulation" /\ ~before.parameters.enable_turbulence) =>
        \A z \in TurbulenceInputs :
            \E r \in {step_simulation(before, z)} :
                /\ r.sim = sim
                /\ r.value = ret.value
                /\ r.raised = ret.raised
                /\ r.called = ret.called

\* the third step of a run without turbulence, taken while the random source
\* would have given a sample other than zero
C13_Witness ==
    /\ ret.call = "step_simulation"
    /\ ret.value
    /\ ret.args = <<1000, -500, 0>>
    /\ ~before.parameters.enable_turbulence
    /\ LogLen = 3

\* C20: a step that returns true has called every registered callback once, in
\* the order of registration, each after the entry of the step was appended (the
\* log it can see holds the entry, and the time it is given is the recorded
\* time); a step that does not return true has called none; a run calls them
\* step by step in the same way.
C20_CallbacksAfterEachStep ==
    LET n == Len(before.results.time_history)
        c == Len(before.callbacks)
    IN  /\ ret.call = "step_simulation" =>
              IF ret.value
              THEN /\ Len(ret.called) = c
                   /\ \A i \in 1..c :
                          /\ ret.called[i].callback = i
                          /\ ret.called[i].entries = n + 1
                          /\ ret.called[i].time = sim.results.time_history[n + 1]
              ELSE ret.called = <<>>
        /\ (ret.call = "run_simulation" /\ ret.raised = "") =>
              /\ Len(ret.called) = c * (LogLen - n)
              /\ \A k \in 1..(LogLen - n) : \A i \in 1..c :
                     /\ ret.called[(k - 1) * c + i].callback = i
                     /\ ret.called[(k - 1) * c + i].entries = n + k
                     /\ ret.called[(k - 1) * c + i].time = sim.results.time_history[n + k]

\* the third step of a manager with two callbacks, the second of which raises
C20_Witness ==
    /\ ret.call = "step_simulation"
    /\ ret.value
    /\ sim.callbacks = <<"ok", "raise">>
    /\ LogLen = 3
    /\ Len(ret.called) = 2
    /\ ret.called[2].entries = 3

(***************************************************************************)
(* Properties of the threads                                               *)
(***************************************************************************)
\* C8: a reader on the main thread never sees a torn log: while it reads, the five
\* sequences have equal lengths; no read fails; and the five entries it has read
\* belong to the same step.
C8_NoTornRead ==
    LET r == sim.results
        s == reader.seen
    IN  /\ reader.pc # "idle" =>
              /\ Len(r.position_history) = Len(r.time_history)
              /\ Len(r.velocity_history) = Len(r.time_history)
              /\ Len(r.acceleration_history) = Len(r.time_history)
              /\ Len(r.force_history) = Len(r.time_history)
        /\ s.raised = ""
        /\ s.forces # 0 =>
              s.position = s.time /\ s.velocity = s.time /\ s.acceleration = s.time
                  /\ s.forces = s.time

C21_RunAdvancesExactly ==
    (ret.call = "run_simulation" /\ before.geometry # NoGeometry
        /\ ~before.is_paused /\ ret.raised = "") =>
        LET n == IF ret.args.steps = <<>>
                 THEN DblIntDiv(before.parameters.max_time, before.parameters.dt)
                 ELSE ret.args.steps[1]
        IN  /\ ~sim.is_running
            /\ sim.results.time_history =
                  StepsWithoutSnapshot(before, n, ret.args.z).results.time_history

(***************************************************************************)
(* Properties of the scenarios                                             *)
(***************************************************************************)
\* C22: a successful step computes acceleration = forces.total + gravity, then
\* velocity' = velocity + acceleration * dt, then position' = position +
\* velocity' * dt with the updated velocity, and time' = time + dt, and records
\* exactly these values; so in a run from the origin under zero gravity whose
\* recorded total forces are all zero, the k-th recorded position is
\* velocity(0) * k * dt.
C22_SemiImplicitEuler ==
    /\ (ret.call = "step_simulation" /\ ret.value) =>
          LET dt           == DblToMilli(before.parameters.dt)
              acceleration == VAdd(sim.state.forces.total, before.parameters.gravity)
              velocity     == VAdd(before.state.velocity, VScaleM(acceleration, dt))
              position     == VAdd(before.state.position, VScaleM(velocity, dt))
              current_time == DblAdd(before.current_time, before.parameters.dt)
          IN  /\ sim.state.acceleration = acceleration
              /\ sim.state.velocity = velocity
              /\ sim.state.position = position
              /\ sim.current_time = current_time
              /\ sim.results.acceleration_history[LogLen] = acceleration
              /\ sim.results.velocity_history[LogLen] = velocity
              /\ sim.results.position_history[LogLen] = position
              /\ sim.results.time_history[LogLen] = current_time
              /\ sim.results.force_history[LogLen] = sim.state.forces
    /\ (/\ sim.parameters.gravity = ZeroVec
        /\ \A i \in 1..LogLen : sim.results.force_history[i].total = ZeroVec) =>
          \A k \in 1..LogLen :
              sim.results.position_history[k] =
                  VScaleM(sim.results.velocity_history[1],
                          k * DblToMilli(sim.parameters.dt))

\* three steps of 0.1 s at the wind's 10 m/s with no force and no gravity: the
\* object is 3 m down the x axis
C22_Witness ==
    /\ ret.call = "step_simulation"
    /\ ret.value
    /\ LogLen = 3
    /\ sim.parameters.gravity = ZeroVec
    /\ \A i \in 1..3 : sim.results.force_history[i].total = ZeroVec
    /\ before.state.velocity = <<10000, 0, 0>>
    /\ sim.results.position_history[3] = <<3000, 0, 0>>

\* C23: the 2 m sphere with no wind, no gravity, no angle of attack, dt = 0.01 and
\* max_time = 0.5, released at (20, 0, 0) m/s: the first recorded drag points
\* along -x and has no y or z component, every recorded lift is zero, and the
\* recorded speed falls from each step to the next through the whole run.
C23_SphereDecelerates ==
    LET r  == sim.results
        dt == DblToMilli(sim.parameters.dt)
    IN  (/\ LogLen >= 1
         /\ sim.geometry # NoGeometry
         /\ sim.geometry.object_type = "sphere"
         /\ <<sim.geometry.length, sim.geometry.width, sim.geometry.height>>
               = <<2000, 2000, 2000>>
         /\ sim.parameters.wind_velocity = ZeroVec
         /\ sim.parameters.gravity = ZeroVec
         /\ sim.parameters.object_angle = 0
         /\ sim.parameters.dt = D_0_01
         /\ sim.parameters.max_time = D_0_5
         /\ VSub(r.velocity_history[1], VScaleM(r.acceleration_history[1], dt))
               = <<20000, 0, 0>>) =>
            /\ r.force_history[1].drag[1] < 0
            /\ r.force_history[1].drag[2] = 0
            /\ r.force_history[1].drag[3] = 0
            /\ \A i \in 1..LogLen : r.force_history[i].lift = ZeroVec
            /\ Norm(r.velocity_history[1]) < 20000
            /\ \A i \in 1..(LogLen - 1) :
                  Norm(r.velocity_history[i + 1]) < Norm(r.velocity_history[i])

\* the run of the 2 m sphere at its end: 50 steps recorded, the next one refused,
\* the object still moving along +x
C23_Witness ==
    /\ LogLen = 50
    /\ StepRefused(sim)
    /\ sim.geometry # NoGeometry
    /\ sim.geometry.length = 2000
    /\ sim.parameters.wind_velocity = ZeroVec
    /\ sim.parameters.gravity = ZeroVec
    /\ sim.parameters.dt = D_0_01
    /\ sim.results.velocity_history[1] = <<16614, 0, 0>>
    /\ sim.results.velocity_history[50][1] > 0
    /\ sim.results.velocity_history[50][1] < sim.results.velocity_history[49][1]

\* C24: get_drag_coefficient chooses the regime by half-open Reynolds intervals:
\* a sphere has 24/Re below 1, 24/Re * (1 + 0.15 Re^0.687) from 1 up to but not
\* including 1000, and 0.44 from 1000 on; a cylinder has 8 pi/Re below 1, 1.0 from
\* 1, 1.2 from 40 and 0.3 from 1000 on; a shape that is none of jet, sphere,
\* cylinder, cube and airfoil has 0.5; and the result is never negative for a
\* positive Reynolds number.
C24_DragRegimes ==
    ret.call = "get_drag_coefficient" =>
        LET obj_type == ret.args[1]
            reynolds == ret.args[2]
            cd       == ret.value
        IN  /\ (obj_type = "sphere" /\ reynolds < 100) =>
                  cd = RoundDiv(24000000, reynolds) * 100
            /\ (obj_type = "sphere" /\ 100 <= reynolds /\ reynolds < 100000) =>
                  cd = RoundDiv(RoundDiv(24000000, reynolds)
                                   * (1000 + RoundDiv(15 * Pow0687(reynolds), 100)), 10)
            /\ (obj_type = "sphere" /\ reynolds >= 100000) => cd = 440000
            /\ (obj_type = "cylinder" /\ reynolds < 100) =>
                  cd = RoundDiv(25132741, reynolds) * 100
            /\ (obj_type = "cylinder" /\ 100 <= reynolds /\ reynolds < 4000) =>
                  cd = 1000000
            /\ (obj_type = "cylinder" /\ 4000 <= reynolds /\ reynolds < 100000) =>
                  cd = 1200000
            /\ (obj_type = "cylinder" /\ reynolds >= 100000) => cd = 300000
            /\ obj_type \notin {"jet", "sphere", "cylinder", "cube", "airfoil"} =>
                  cd = 500000
            /\ reynolds > 0 => cd >= 0

\* the sphere at Re = 1 exactly: 24 * 1.15 of the middle formula, not the 24 of
\* Stokes flow
C24_Witness ==
    /\ ret.call = "get_drag_coefficient"
    /\ ret.args[1] = "sphere"
    /\ ret.args[2] = 100
    /\ ret.value = 27600000

\* C25: whenever calculate_forces has not returned the zero bundle, the Reynolds
\* number it gave to get_drag_coefficient is positive, whatever geometry
\* set_object_geometry was given.
C25_ReynoldsPositive ==
    \A i \in 1..LogLen :
        "coefficients" \in DOMAIN sim.results.force_history[i] =>
            sim.results.force_history[i].coefficients.reynolds > 0

\* C26: with turbulence disabled, the first step after reset_simulation finds the
\* object moving with the wind, whatever wind_velocity and wind_angle are
\* configured (for a geometry of positive length): it records the all-zero
\* force bundle and an acceleration equal to gravity.
C26_FirstStepAtRestInTheWind ==
    (/\ ret.call = "step_simulation"
     /\ ret.value
     /\ LogLen = 1
     /\ before.geometry.length > 0
     /\ ~before.parameters.enable_turbulence
     /\ before.state.velocity = before.parameters.wind_velocity
     /\ before.state.position = ZeroVec) =>
        /\ sim.results.force_history[1] = ZeroForces
        /\ sim.results.acceleration_history[1] = before.parameters.gravity

(***************************************************************************)
(* Properties of the application's threads                                 *)
(***************************************************************************)
\* C27: in the application the manager is reset only while no SimulationThread
\* is running, and a SimulationThread is started only while none is: start
\* resets and starts a thread only when the previous one has finished, reset
\* resets only after its wait for the thread; and once stop_simulation has
\* returned, no thread is left and the log does not grow until the next start.
C27_GuiSerialisesResetAndSteps ==
    [][/\ (GuiStart /\ (sim' # sim \/ worker' # worker)) => worker.pc = "idle"
       /\ (GuiJoined /\ gui.pc = "reset_wait") => worker.pc = "idle"
       /\ (GuiReset /\ ~gui.simulation_thread) => worker.pc = "idle"
       /\ (gui.pc = "idle" /\ ~gui.simulation_thread /\ worker.kind # "run") =>
             /\ worker.pc = "idle"
             /\ Len(sim'.results.time_history) <= Len(sim.results.time_history)
             /\ Len(sim'.results.force_history) <= Len(sim.results.force_history)
      ]_vars

\* stop_simulation has returned after it waited for the step the thread was
\* taking: the step is recorded, the thread is gone
C27_Witness ==
    /\ gui.pc = "idle"
    /\ ~gui.simulation_thread
    /\ worker = IdleWorker
    /\ halt.stop.in_force
    /\ halt.stop.steps = 1
    /\ LogLen >= 1
    /\ ~sim.is_running

\* C28: once a stepping loop has ended, whether it was stopped, used its step
\* budget or had step_simulation return False at max_time, is_running is false:
\* is_running holds only while run_simulation or a SimulationThread is active.
\* (Stated of the loops that have recorded a step.)
C28_NotRunningAfterTheLoop ==
    (worker.pc = "idle" /\ gui.pc = "idle" /\ LogLen >= 1) => ~sim.is_running

(***************************************************************************)
(* Properties of the parameters and of the clock under steps               *)
(***************************************************************************)
\* C29: step_simulation and reset_simulation leave the parameters and the
\* geometry as they were, with turbulence and without, and set_parameters stores
\* the values it is given: so the parameters always hold the values last given,
\* and wind_velocity is not moved by the update of the velocity that reset had
\* seeded from it.
C29_StepsLeaveParametersAlone ==
    /\ ret.call \in {"step_simulation", "reset_simulation"} =>
          /\ sim.parameters = before.parameters
          /\ sim.geometry = before.geometry
    /\ ret.call = "set_parameters" =>
          \A key \in DOMAIN before.parameters :
              sim.parameters[key] = IF key \in DOMAIN ret.args THEN ret.args[key]
                                    ELSE before.parameters[key]

\* a turbulent step of a run that reset had started at the wind's velocity: the
\* velocity has moved away, wind_velocity has not
C29_Witness ==
    /\ ret.call = "step_simulation"
    /\ ret.value
    /\ sim.parameters.enable_turbulence
    /\ LogLen >= 2
    /\ sim.parameters.wind_velocity = <<10000, 0, 0>>
    /\ VSub(sim.results.velocity_history[1],
            VScaleM(sim.results.acceleration_history[1],
                    DblToMilli(sim.parameters.dt))) = <<10000, 0, 0>>
    /\ sim.state.velocity # sim.parameters.wind_velocity

\* C30: a step records an entry only when the time before it is below max_time;
\* the time it records is that time plus dt, so that t - dt < max_time for the dt
\* and max_time of the step, and it may lie beyond max_time by less than one dt;
\* from a time at or beyond max_time no entry is recorded.
C30_StepsOnlyBelowMaxTime ==
    ret.call = "step_simulation" =>
        LET dt       == before.parameters.dt
            max_time == before.parameters.max_time
            recorded == Len(before.results.time_history) < LogLen
        IN  /\ recorded =>
                  /\ DblLess(before.current_time, max_time)
                  /\ sim.results.time_history[LogLen] = DblAdd(before.current_time, dt)
                  /\ DblLess(DblAdd(sim.results.time_history[LogLen],
                                    Signed(~dt.neg, dt)), max_time)
            /\ DblGeq(before.current_time, max_time) =>
                  /\ ~ret.value
                  /\ ~recorded
                  /\ sim.results = before.results

\* the step taken from 0.9999999999999999 with dt = 0.1 and max_time = 1.0: its
\* recorded time lies beyond max_time
C30_Witness ==
    /\ ret.call = "step_simulation"
    /\ ret.value
    /\ DblLess(before.current_time, before.parameters.max_time)
    /\ DblLess(before.parameters.max_time, sim.results.time_history[LogLen])
    /\ before.parameters.dt = D_0_1
====
